---- MODULE Spec2Model ----
(***************************************************************************)
(* textcurve: text run -> closed polygon contours.                         *)
(*                                                                         *)
(* The repository holds two TextOutlines entry points:                     *)
(*   api = "truetype"  TextOutlines(ttFont, s, opt)     src/textcurve.go *)
(*   api = "parsed"    TextOutlines(parsed, s, opt)     src/unnamed/     *)
(*                                                        part_001:104     *)
(* Both share glyphContoursToPolylines, flattenTrueTypeContour and         *)
(* flattenQuad; they differ in option validation, in the layout path and   *)
(* in computeAlign.                                                        *)
(*                                                                         *)
(* Arithmetic.  float64 values are modelled as exact rationals.  A model-  *)
(* unit coordinate v is stored as the integer v * ascent * Unit, where     *)
(* scale = Size / ascent is the call's scale; every value the code derives *)
(* (midpoints, Bezier points at t = i/segs, half widths) is then an        *)
(* integer, so \div below is exact.  Rounding and overflow of float64 are  *)
(* outside the model.  The running bounds start at +Inf/-Inf and are       *)
(* modelled as extended values.  Calls whose Size is +Inf, -Inf or NaN are *)
(* explored apart (SpecFloat), every float64 then an extended value.       *)
(***************************************************************************)
EXTENDS Integers, Sequences, FiniteSets, TLC

VARIABLES api, font, s, opt, pc, scale, hbGlyphs, k, penX, prev, hasPrev, gb,
          layoutAdvance, outlines, raw, bnd, placed, dx, dy, ret

\* parseOS2TypoAscender: the font bytes handed to it, how they were laid out,
\* the width of Go's int on the build, and what the call returned.
VARIABLES data, layout, intBits, os2ret

os2vars == <<data, layout, intBits, os2ret>>

\* Concurrent use of the ascender cache: the sync.Map fontAscenders, the
\* ParseTTF call that creates each font handle (what parseOS2TypoAscender
\* returns for its bytes, and its position), and the TextOutlines calls
\* (position, handle, the ascender lookupAscender returned, the result).
VARIABLES fontAscenders, fontFile, ppc, cpc, chandle, seen, cret

cachevars == <<fontAscenders, fontFile, ppc, cpc, chandle, seen, cret>>

\* A TextOutlines call whose float64 values may be infinite or NaN: its
\* position, entry point, arguments and what it returned.
VARIABLES fcall

\* The state outside TextOutlines.
aux == <<os2vars, cachevars, fcall>>

tovars == <<api, font, s, opt, pc, scale, hbGlyphs, k, penX, prev, hasPrev, gb,
            layoutAdvance, outlines, raw, bnd, placed, dx, dy, ret>>

vars == <<tovars, aux>>

\* Longest text run explored.
MaxText == 2

\* Longest glyph point list decoded directly.
MaxPts == 3

\* Font handles created by concurrent ParseTTF calls, and concurrent
\* TextOutlines calls.
MaxHandles == 2
MaxCallers == 2
Handles == 1..MaxHandles
Callers == 1..MaxCallers

\* Denominator of stored coordinates: 4 (two halvings) * 64 (segs^2, segs <= 8).
Unit == 4 * 64

----------------------------------------------------------------------------
(* model2d.Coord and the extended reals used for the running bounds *)

XY(x, y) == [X |-> x, Y |-> y]

Mid(a, b) == XY((a.X + b.X) \div 2, (a.Y + b.Y) \div 2)

Fin(v) == [k |-> "fin", v |-> v]
PInf == [k |-> "pinf", v |-> 0]
NInf == [k |-> "ninf", v |-> 0]
NaN == [k |-> "nan", v |-> 0]

ExtNeg(a) ==
    CASE a.k = "fin" -> Fin(-a.v)
      [] a.k = "pinf" -> NInf
      [] a.k = "ninf" -> PInf
      [] OTHER -> NaN

ExtAdd(a, b) ==
    CASE a.k = "nan" \/ b.k = "nan" -> NaN
      [] a.k = "fin" /\ b.k = "fin" -> Fin(a.v + b.v)
      [] a.k = "fin" -> b
      [] b.k = "fin" -> a
      [] a.k = b.k -> a
      [] OTHER -> NaN

ExtSub(a, b) == ExtAdd(a, ExtNeg(b))

ExtHalf(a) == IF a.k = "fin" THEN Fin(a.v \div 2) ELSE a

\* x < e and x > e for a finite x and an extended e (false against NaN).
LtExt(x, e) == e.k = "pinf" \/ (e.k = "fin" /\ x < e.v)
GtExt(x, e) == e.k = "ninf" \/ (e.k = "fin" /\ x > e.v)

----------------------------------------------------------------------------
(* Alignment enumerations *)

HAlignLeft == 0
HAlignCenter == 1
HAlignRight == 2

VAlignBaseline == 0
VAlignTop == 1
VAlignCenter == 2
VAlignBottom == 3

HAligns == {HAlignLeft, HAlignCenter, HAlignRight}
VAligns == {VAlignBaseline, VAlignTop, VAlignCenter, VAlignBottom}

----------------------------------------------------------------------------
(* The font: glyph table, metrics, kerning.  Glyph coordinates, advances   *)
(* and kerning are 26.6 fixed point at fixedScale = 64 * upem, that is 64  *)
(* per font unit.                                                          *)

Pt(x, y, on) == [X |-> 64 * x, Y |-> 64 * y, Flags |-> IF on THEN 1 ELSE 0]

\* glyph 1 "A": one triangle of on-curve points, trailing side bearing 100.
\* glyph 2 " ": loads, no points.
\* glyph 3 "j": a contour with two consecutive off-curve points, an empty
\*              contour, a contour that starts off-curve and reaches below
\*              the baseline and left of the origin, a two-point contour.
\* glyph 4 "x": its outline fails to load.
GlyphTable ==
    <<[ok |-> TRUE, adv |-> 64 * 600, Ends |-> <<3>>,
       Points |-> <<Pt(100, 0, TRUE), Pt(500, 0, TRUE), Pt(300, 700, TRUE)>>],
      [ok |-> TRUE, adv |-> 64 * 300, Ends |-> <<>>, Points |-> <<>>],
      [ok |-> TRUE, adv |-> 64 * 400, Ends |-> <<4, 4, 7, 9>>,
       Points |-> <<Pt(0, 600, TRUE), Pt(200, 800, FALSE), Pt(400, 600, FALSE),
                    Pt(200, 400, TRUE),
                    Pt(-100, -200, FALSE), Pt(100, -300, TRUE), Pt(100, 0, TRUE),
                    Pt(300, 100, TRUE), Pt(300, 200, TRUE)>>],
      [ok |-> FALSE, adv |-> 64 * 500, Ends |-> <<>>, Points |-> <<>>]>>

Runes == {"A", " ", "j", "x"}

\* ttFont.Index(r)
Index(r) ==
    CASE r = "A" -> 1
      [] r = " " -> 2
      [] r = "j" -> 3
      [] OTHER -> 4

\* ttFont.Kern(fixedScale, i0, i1), 26.6
Kern(i0, i1) ==
    CASE i0 = 1 /\ i1 = 3 -> 64 * (-50)
      [] i0 = 3 /\ i1 = 1 -> 64 * 30
      [] i0 = 4 /\ i1 = 1 -> 64 * (-20)
      [] OTHER -> 0

\* ttFont.HMetric(fixedScale, idx).AdvanceWidth, 26.6
AdvanceWidth(idx) == GlyphTable[idx].adv

NoGlyph == [Points |-> <<>>, Ends |-> <<>>]

\* gb = truetype.GlyphBuf{}; gb.Load(ttFont, fixedScale, idx, HintingNone):
\* ok is "err == nil"; a failed load leaves the buffer empty.
Load(idx) ==
    IF GlyphTable[idx].ok
    THEN [ok |-> TRUE, gb |-> [Points |-> GlyphTable[idx].Points,
                               Ends |-> GlyphTable[idx].Ends]]
    ELSE [ok |-> FALSE, gb |-> NoGlyph]

FontRec(isNil, os2, maxY, hb) ==
    [nil |-> isNil, upem |-> 1000, asc |-> os2, boundsMaxY |-> maxY, hbFace |-> hb]

NilFont == FontRec(TRUE, 0, 0, FALSE)

\* asc is the cached OS/2 typographic ascender (0: none cached).
Fonts ==
    {FontRec(FALSE, 800, 900, TRUE),
     FontRec(FALSE, 800, 900, FALSE),
     FontRec(FALSE, 0, 900, FALSE),
     FontRec(FALSE, 0, -50, FALSE)}

----------------------------------------------------------------------------
(* Glyph outline decoder and curve flattener *)

\* toVec: 26.6 glyph point -> model units; sc = [num |-> Size, den |-> ascent].
toVec(p, pen, sc) ==
    XY(((p.X \div 64) + pen) * sc.num * Unit, (p.Y \div 64) * sc.num * Unit)

onCurve(p) == p.Flags % 2 # 0

\* One Bezier point at t = i / segs: p0*u*u + p1*2*u*t + p2*t*t, u = 1 - t.
quadPoint(p0, p1, p2, segs, i) ==
    LET u == segs - i
    IN XY((u * u * p0.X + 2 * u * i * p1.X + i * i * p2.X) \div (segs * segs),
          (u * u * p0.Y + 2 * u * i * p1.Y + i * i * p2.Y) \div (segs * segs))

flattenQuad(p0, p1, p2, segs) ==
    [i \in 1..segs |-> quadPoint(p0, p1, p2, segs, i)]

\* The start anchor and its index (0-based, as in the code).
chooseStart(pts, pen, sc) ==
    LET n == Len(pts)
    IN IF onCurve(pts[1]) THEN [start |-> toVec(pts[1], pen, sc), startIdx |-> 0]
       ELSE IF onCurve(pts[n])
            THEN [start |-> toVec(pts[n], pen, sc), startIdx |-> n - 1]
            ELSE [start |-> Mid(toVec(pts[n], pen, sc), toVec(pts[1], pen, sc)),
                  startIdx |-> 0]

\* One iteration of the walk at 0-based index i; w holds poly, prevOn,
\* haveCtrl, ctrl and the number of quadratics emitted so far.
walkStep(pts, pen, sc, segs, i, w) ==
    LET p == pts[i + 1]
        c == toVec(p, pen, sc)
    IN IF onCurve(p)
       THEN IF w.haveCtrl
            THEN [w EXCEPT !.poly = @ \o flattenQuad(w.prevOn, w.ctrl, c, segs),
                           !.haveCtrl = FALSE, !.prevOn = c, !.quads = @ + 1]
            ELSE [w EXCEPT !.poly = Append(@, c), !.prevOn = c]
       ELSE IF w.haveCtrl
            THEN LET implied == Mid(w.ctrl, c)
                 IN [w EXCEPT !.poly = @ \o flattenQuad(w.prevOn, w.ctrl, implied, segs),
                              !.prevOn = implied, !.ctrl = c, !.haveCtrl = TRUE,
                              !.quads = @ + 1]
            ELSE [w EXCEPT !.ctrl = c, !.haveCtrl = TRUE]

\* The walk with the index advanced once more after an implied midpoint.
RECURSIVE walk_skipAfterImplied(_, _, _, _, _, _, _)
walk_skipAfterImplied(pts, pen, sc, segs, i, steps, w) ==
    IF steps >= Len(pts) THEN w
    ELSE walk_skipAfterImplied(pts, pen, sc, segs,
              IF w.haveCtrl /\ ~onCurve(pts[i + 1]) THEN (i + 2) % Len(pts)
              ELSE (i + 1) % Len(pts),
              steps + 1,
              [walkStep(pts, pen, sc, segs, i, w) EXCEPT !.visited = Append(@, i)])

\* "for steps := 0; steps < n; steps++" with "i = (i + 1) % n" at the end of
\* either branch; visited records the indices the loop has read.
RECURSIVE walk(_, _, _, _, _, _, _)
walk(pts, pen, sc, segs, i, steps, w) ==
    IF steps >= Len(pts) THEN w
    ELSE walk(pts, pen, sc, segs, (i + 1) % Len(pts), steps + 1,
              [walkStep(pts, pen, sc, segs, i, w) EXCEPT !.visited = Append(@, i)])

\* The walk's result: the state after n steps from the chosen anchor.
walked(pts, pen, sc, segs) ==
    LET st == chooseStart(pts, pen, sc)
    IN walk(pts, pen, sc, segs, (st.startIdx + 1) % Len(pts), 0,
            [poly |-> <<st.start>>, prevOn |-> st.start, haveCtrl |-> FALSE,
             ctrl |-> XY(0, 0), quads |-> 0, visited |-> <<>>])

\* A closure that goes straight back to the anchor, pending control or not.
closeContour_line(w, start, segs) ==
    LET a == IF w.haveCtrl \/ w.poly[Len(w.poly)] # start THEN Append(w.poly, start)
             ELSE w.poly
    IN IF a[Len(a)] # a[1] THEN Append(a, a[1]) ELSE a

\* "Close contour back to start" and "Ensure explicit closure".
closeContour(w, start, segs) ==
    LET a == IF w.haveCtrl
             THEN w.poly \o flattenQuad(w.prevOn, w.ctrl, start, segs)
             ELSE IF w.poly[Len(w.poly)] # start THEN Append(w.poly, start)
                  ELSE w.poly
    IN IF a[Len(a)] # a[1] THEN Append(a, a[1]) ELSE a

dropShort_keep(poly) == poly

\* The final length test: a polyline of fewer than 4 points is returned as nil.
dropShort(poly) == IF Len(poly) < 4 THEN <<>> ELSE poly

flattenTrueTypeContour(pts, pen, sc, segs) ==
    IF Len(pts) = 0 THEN <<>>
    ELSE dropShort(closeContour(walked(pts, pen, sc, segs),
                                chooseStart(pts, pen, sc).start, segs))

\* A slice that takes in the point at index end as well, where there is one.
Slice_inclusive(pts, start, end) ==
    [i \in 1..(IF end < Len(pts) THEN end - start + 1 ELSE end - start) |-> pts[start + i]]

\* pts[start:end] of a Go slice, 0-based and half-open.
Slice(pts, start, end) == [i \in 1..(end - start) |-> pts[start + i]]

\* The polylines of contours j..Len(ends), given the running start index.
RECURSIVE contoursFrom(_, _, _, _, _, _, _)
contoursFrom(pts, ends, j, start, pen, sc, segs) ==
    IF j > Len(ends) THEN <<>>
    ELSE LET contourPts == Slice(pts, start, ends[j])
             poly == flattenTrueTypeContour(contourPts, pen, sc, segs)
             rest == contoursFrom(pts, ends, j + 1, ends[j], pen, sc, segs)
         IN IF Len(contourPts) = 0 THEN rest
            ELSE IF Len(poly) >= 3 THEN <<poly>> \o rest
                 ELSE rest

glyphContoursToPolylines(buf, pen, sc, segs) ==
    contoursFrom(buf.Points, buf.Ends, 1, 0, pen, sc, segs)

----------------------------------------------------------------------------
(* Pieces of TextOutlines shared by the two entry points *)

ascentOf_strict(cached, f) ==
    LET a1 == IF cached < 0 THEN f.boundsMaxY ELSE cached
    IN IF a1 < 0 THEN f.upem ELSE a1

\* The ascent chain: cached ascender, else bounding-box top, else upem.
ascentOf(cached, f) ==
    LET a1 == IF cached <= 0 THEN f.boundsMaxY ELSE cached
    IN IF a1 <= 0 THEN f.upem ELSE a1

\* lookupAscender(ttFont): the fontAscenders entry of the handle, else 0.
lookupAscender(f) == f.asc

\* CurveSegs <= 0 is replaced by 8.
normSegs(n) == IF n <= 0 THEN 8 ELSE n

AllPoints(contours) ==
    {contours[i][j] : <<i, j>> \in
        UNION {{<<i, j>> : j \in 1..Len(contours[i])} : i \in 1..Len(contours)}}

SetMin(S) == CHOOSE m \in S : \A x \in S : m <= x
SetMax(S) == CHOOSE m \in S : \A x \in S : m >= x

NoBounds == [minX |-> PInf, minY |-> PInf, maxX |-> NInf, maxY |-> NInf]

\* The "update bounds" loops over the points of the new contours.
updateBounds(b, contours) ==
    LET P == AllPoints(contours)
        xs == {p.X : p \in P}
        ys == {p.Y : p \in P}
    IN IF P = {} THEN b
       ELSE [minX |-> IF LtExt(SetMin(xs), b.minX) THEN Fin(SetMin(xs)) ELSE b.minX,
             minY |-> IF LtExt(SetMin(ys), b.minY) THEN Fin(SetMin(ys)) ELSE b.minY,
             maxX |-> IF GtExt(SetMax(xs), b.maxX) THEN Fin(SetMax(xs)) ELSE b.maxX,
             maxY |-> IF GtExt(SetMax(ys), b.maxY) THEN Fin(SetMax(ys)) ELSE b.maxY]

alignDy_swapped(v, b) ==
    CASE v = VAlignTop -> ExtNeg(b.minY)
      [] v = VAlignCenter -> ExtNeg(ExtAdd(b.minY, ExtHalf(ExtSub(b.maxY, b.minY))))
      [] v = VAlignBottom -> ExtNeg(b.maxY)
      [] OTHER -> Fin(0)

\* The vertical switch, the same in both versions of computeAlign.
alignDy(v, b) ==
    CASE v = VAlignTop -> ExtNeg(b.maxY)
      [] v = VAlignCenter -> ExtNeg(ExtAdd(b.minY, ExtHalf(ExtSub(b.maxY, b.minY))))
      [] v = VAlignBottom -> ExtNeg(b.minY)
      [] OTHER -> Fin(0)

alignPanic_silent(a) == ""

\* The default branches of the two switches.
alignPanic(a) ==
    IF a.HAlign \notin HAligns THEN "unknown HAlign"
    ELSE IF a.VAlign \notin VAligns THEN "unknown VAlign"
         ELSE ""

\* computeAlign of src/textcurve.go: every anchor from the ink bounds.
computeAlign(a, b) ==
    LET width == ExtSub(b.maxX, b.minX)
    IN [panic |-> alignPanic(a),
        dx |-> CASE a.HAlign = HAlignRight -> ExtNeg(b.maxX)
                 [] a.HAlign = HAlignCenter -> ExtNeg(ExtAdd(b.minX, ExtHalf(width)))
                 [] OTHER -> ExtNeg(b.minX),
        dy |-> alignDy(a.VAlign, b)]

\* computeAlign of part_001: right from the advance, left from the origin.
computeAlignAdvance(a, b, advanceWidth) ==
    LET width == ExtSub(b.maxX, b.minX)
    IN [panic |-> alignPanic(a),
        dx |-> CASE a.HAlign = HAlignRight -> ExtNeg(Fin(advanceWidth))
                 [] a.HAlign = HAlignCenter -> ExtNeg(ExtAdd(b.minX, ExtHalf(width)))
                 [] OTHER -> Fin(0),
        dy |-> alignDy(a.VAlign, b)]

translate_subtract(cs, ddx, ddy) ==
    [i \in 1..Len(cs) |->
        [j \in 1..Len(cs[i]) |-> XY(cs[i][j].X - ddx.v, cs[i][j].Y - ddy.v)]]

translate_skipLast(cs, ddx, ddy) ==
    [i \in 1..Len(cs) |->
        [j \in 1..Len(cs[i]) |->
            IF j = Len(cs[i]) THEN cs[i][j]
            ELSE XY(cs[i][j].X + ddx.v, cs[i][j].Y + ddy.v)]]

\* "Apply translation": the same (dx, dy) added to every point.
translate(cs, ddx, ddy) ==
    [i \in 1..Len(cs) |->
        [j \in 1..Len(cs[i]) |-> XY(cs[i][j].X + ddx.v, cs[i][j].Y + ddy.v)]]

\* The external shaper's glyph run for an LTR run of simple glyphs: one glyph
\* per rune, no offset, pair kerning folded into the first glyph's advance
\* unless the kern feature is switched off.  Font units.
shaperGlyphs(runes, kerning) ==
    [i \in 1..Len(runes) |->
        [GlyphID |-> Index(runes[i]), XOffset |-> 0,
         XAdvance |-> (AdvanceWidth(Index(runes[i])) \div 64)
                      + IF kerning /\ i < Len(runes)
                        THEN Kern(Index(runes[i]), Index(runes[i + 1])) \div 64
                        ELSE 0]]

\* The pen position before glyph i of the shaped run.
RECURSIVE shapedPen(_, _, _)
shapedPen(gs, i, spacing) ==
    IF i <= 1 THEN 0
    ELSE shapedPen(gs, i - 1, spacing) + gs[i - 1].XAdvance * spacing

shapeGlyphsWithHarfBuzz(f, runes, o) ==
    IF f.nil \/ ~f.hbFace THEN [glyphs |-> <<>>, advance |-> 0, ok |-> FALSE]
    ELSE IF Len(runes) = 0 THEN [glyphs |-> <<>>, advance |-> 0, ok |-> TRUE]
    ELSE LET gs == shaperGlyphs(runes, o.Kerning)
         IN [glyphs |-> [i \in 1..Len(gs) |->
                            [index |-> gs[i].GlyphID,
                             penX |-> shapedPen(gs, i, o.Spacing) + gs[i].XOffset]],
             advance |-> shapedPen(gs, Len(gs) + 1, o.Spacing),
             ok |-> TRUE]

----------------------------------------------------------------------------
(* The calls explored *)

Texts == UNION {[1..n -> Runes] : n \in 0..MaxText}
Sizes == {-10, 0, 10}
Segs == {0, 1, 2}
Spacings == {-1, 0, 1, 2}

\* opt.Align is read only by computeAlign; the model draws it where the
\* layout loop ends, so that every call is explored with every alignment.
\* 3 and 4 are values outside the declared enumerations.
AlignValues == [HAlign : HAligns \cup {3}, VAlign : VAligns \cup {4}]
Unread == [HAlign |-> -1, VAlign |-> -1]

NoRet == [outlines |-> <<>>, err |-> ""]

\* No call of parseOS2TypoAscender in the picture.
NoLayout == [len |-> 0, numTables |-> 0, recs |-> <<>>, val |-> 0]
NoResult == [asc |-> 0, ok |-> FALSE, crash |-> FALSE, reads |-> {}, called |-> FALSE]
IdleOS2 == data = <<>> /\ layout = NoLayout /\ intBits = 64 /\ os2ret = NoResult

\* No concurrent calls in the picture.
IdleCache ==
    /\ fontAscenders = [h \in Handles |-> 0]
    /\ fontFile = [h \in Handles |-> [asc |-> 0, ok |-> FALSE]]
    /\ ppc = [h \in Handles |-> "unused"]
    /\ cpc = [c \in Callers |-> "unused"]
    /\ chandle = [c \in Callers |-> 0]
    /\ seen = [c \in Callers |-> 0]
    /\ cret = [c \in Callers |-> NoRet]

\* No call with non-finite values in the picture.
NoFloatRet ==
    [outlines |-> <<>>, err |-> "", aligned |-> FALSE, bnd |-> NoBounds,
     dx |-> Fin(0), dy |-> Fin(0)]
IdleFloat ==
    fcall = [pc |-> "unused", api |-> "none", font |-> NilFont, s |-> <<>>,
             opt |-> [Size |-> Fin(0), CurveSegs |-> 1, Kerning |-> FALSE, Spacing |-> 1,
                      Align |-> Unread],
             ret |-> NoFloatRet]

IdleAux == IdleOS2 /\ IdleCache /\ IdleFloat

InitCall ==
    /\ api \in {"truetype", "parsed"}
    /\ font \in Fonts \cup {NilFont}
    /\ s \in Texts
    /\ opt \in [Size : Sizes, CurveSegs : Segs, Kerning : BOOLEAN,
                Spacing : IF api = "parsed" THEN Spacings ELSE {1},
                Align : {Unread}]
    /\ pc = "entry"
    /\ scale = [num |-> 0, den |-> 1]
    /\ hbGlyphs = <<>>
    /\ k = 1
    /\ penX = 0
    /\ prev = 0
    /\ hasPrev = FALSE
    /\ gb = NoGlyph
    /\ layoutAdvance = 0
    /\ outlines = <<>>
    /\ raw = <<>>
    /\ bnd = NoBounds
    /\ placed = <<>>
    /\ dx = Fin(0)
    /\ dy = Fin(0)
    /\ ret = NoRet
    /\ IdleAux

\* Glyph buffers handed to the decoder directly: every point list of up to
\* MaxPts points over three positions, on- or off-curve, as one contour or
\* cut into two at any index.
PoolPts == {Pt(q[1], q[2], on) : q \in {<<0, 0>>, <<400, 0>>, <<200, 600>>},
                                on \in BOOLEAN}
Streams == UNION {[1..n -> PoolPts] : n \in 0..MaxPts}
EndsOf(n) == {<<n>>} \cup {<<j, n>> : j \in 0..n}
GlyphBufs == UNION {{[Points |-> p, Ends |-> e] : e \in EndsOf(Len(p))} : p \in Streams}

InitDecode ==
    /\ api = "none"
    /\ font = FontRec(FALSE, 800, 900, FALSE)
    /\ s = <<>>
    /\ opt \in [Size : {10}, CurveSegs : {1, 2}, Kerning : {FALSE}, Spacing : {1},
                Align : {Unread}]
    /\ pc = "decode"
    /\ scale = [num |-> 10, den |-> 800]
    /\ hbGlyphs = <<>>
    /\ k = 1
    /\ penX = 0
    /\ prev = 0
    /\ hasPrev = FALSE
    /\ gb \in GlyphBufs
    /\ layoutAdvance = 0
    /\ outlines = <<>>
    /\ raw = <<>>
    /\ bnd = NoBounds
    /\ placed = <<>>
    /\ dx = Fin(0)
    /\ dy = Fin(0)
    /\ ret = NoRet
    /\ IdleAux

Init == InitCall \/ InitDecode

\* glyphContoursToPolylines applied to the buffer.
decodeGlyph ==
    /\ pc = "decode"
    /\ outlines' = glyphContoursToPolylines(gb, penX, scale, opt.CurveSegs)
    /\ pc' = "decoded"
    /\ UNCHANGED <<aux, api, font, s, opt, scale, hbGlyphs, k, penX, prev, hasPrev, gb,
                   layoutAdvance, raw, bnd, placed, dx, dy, ret>>

Fail(msg) ==
    /\ pc' = "done"
    /\ ret' = [outlines |-> <<>>, err |-> msg]
    /\ UNCHANGED <<aux, gb, api, font, s, opt, scale, hbGlyphs, k, penX, prev, hasPrev,
                   layoutAdvance, outlines, raw, bnd, placed, dx, dy>>

\* The locals a call starts its layout with.
Begin(o, cached, next) ==
    /\ opt' = o
    /\ scale' = [num |-> o.Size, den |-> ascentOf(cached, font)]
    /\ pc' = next
    /\ UNCHANGED <<aux, gb, api, font, s, hbGlyphs, k, penX, prev, hasPrev, layoutAdvance,
                   outlines, raw, bnd, placed, dx, dy, ret>>

\* src/textcurve.go TextOutlines, from entry to the layout loop.
ttEntry ==
    /\ pc = "entry" /\ api = "truetype"
    /\ IF font.nil THEN Fail("nil font")
       ELSE IF opt.Size <= 0 THEN Fail("Size must be > 0")
       ELSE Begin([opt EXCEPT !.CurveSegs = normSegs(@)], lookupAscender(font), "loop")

normSpacing_keep(x) == x

\* Spacing 0 is replaced by 1.
normSpacing(x) == IF x = 0 THEN 1 ELSE x

\* part_001 TextOutlines, from entry to the choice of layout path.
pfEntry ==
    /\ pc = "entry" /\ api = "parsed"
    /\ IF font.nil THEN Fail("nil font")
       ELSE IF opt.Size <= 0 THEN Fail("Size must be > 0")
       ELSE IF normSpacing(opt.Spacing) < 0 THEN Fail("Spacing must be >= 0")
       ELSE Begin([opt EXCEPT !.CurveSegs = normSegs(@), !.Spacing = normSpacing(@)],
                  font.asc, "shape")

\* part_001: the call of shapeGlyphsWithHarfBuzz and the branch on its ok.
pfShape ==
    /\ pc = "shape"
    /\ LET r == shapeGlyphsWithHarfBuzz(font, s, opt)
       IN IF r.ok
          THEN /\ hbGlyphs' = r.glyphs
               /\ layoutAdvance' = r.advance
               /\ pc' = "hbloop"
          ELSE /\ pc' = "loop"
               /\ UNCHANGED <<hbGlyphs, layoutAdvance>>
    /\ UNCHANGED <<aux, gb, api, font, s, opt, scale, k, penX, prev, hasPrev, outlines, raw,
                   bnd, placed, dx, dy, ret>>

\* part_001: one iteration of the loop over the shaped glyphs.
pfShapedGlyph ==
    /\ pc = "hbloop" /\ k <= Len(hbGlyphs)
    /\ LET g == hbGlyphs[k]
           ld == Load(g.index)
           contours == glyphContoursToPolylines(ld.gb, g.penX, scale, opt.CurveSegs)
       IN IF ~ld.ok
          THEN /\ placed' = Append(placed, [idx |-> g.index, penX |-> g.penX,
                                            loaded |-> FALSE])
               /\ UNCHANGED <<outlines, bnd>>
          ELSE /\ bnd' = updateBounds(bnd, contours)
               /\ outlines' = outlines \o contours
               /\ placed' = Append(placed, [idx |-> g.index, penX |-> g.penX,
                                            loaded |-> TRUE])
    /\ gb' = Load(hbGlyphs[k].index).gb
    /\ k' = k + 1
    /\ UNCHANGED <<aux, api, font, s, opt, pc, scale, hbGlyphs, penX, prev, hasPrev,
                   layoutAdvance, raw, dx, dy, ret>>

\* A glyph whose outline fails to load: "Skip missing glyphs", the pen still
\* moves by the advance width.
advanceAfterFail_skip(pen, idx, sp) == pen

advanceAfterFail(pen, idx, sp) == pen + (AdvanceWidth(idx) \div 64) * sp

kernedPen_unscaled(pen, p, hp, idx, kerning, sp) ==
    IF kerning /\ hp THEN pen + (Kern(p, idx) \div 64) ELSE pen

\* "if opt.Kerning && hasPrev": the pen moved by the pair's kerning value.
kernedPen(pen, p, hp, idx, kerning, sp) ==
    IF kerning /\ hp THEN pen + (Kern(p, idx) \div 64) * sp ELSE pen

\* One iteration of the fallback loop over the runes; sp multiplies kerning
\* and advance (part_001), and is 1 where the code has no multiplier.
glyphStep(sp) ==
    /\ pc = "loop" /\ k <= Len(s)
    /\ LET idx == Index(s[k])
           pen == kernedPen(penX, prev, hasPrev, idx, opt.Kerning, sp)
           ld == Load(idx)
           contours == glyphContoursToPolylines(ld.gb, pen, scale, opt.CurveSegs)
       IN /\ IF ~ld.ok
             THEN UNCHANGED <<outlines, bnd>>
             ELSE /\ bnd' = updateBounds(bnd, contours)
                  /\ outlines' = outlines \o contours
          /\ placed' = Append(placed, [idx |-> idx, penX |-> pen, loaded |-> ld.ok])
          /\ penX' = IF ~ld.ok THEN advanceAfterFail(pen, idx, sp)
                      ELSE pen + (AdvanceWidth(idx) \div 64) * sp
          /\ prev' = idx
          /\ hasPrev' = TRUE
          /\ gb' = ld.gb
    /\ k' = k + 1
    /\ UNCHANGED <<aux, api, font, s, opt, pc, scale, hbGlyphs, layoutAdvance, raw,
                   dx, dy, ret>>

\* src/textcurve.go: the body of "for _, r := range s".
ttGlyph == api = "truetype" /\ glyphStep(1)

\* part_001: the body of the fallback "for _, r := range s".
pfFallbackGlyph == api = "parsed" /\ glyphStep(opt.Spacing)

endLayout_errOnEmpty(adv) ==
    /\ \E a \in AlignValues : opt' = [opt EXCEPT !.Align = a]
    /\ layoutAdvance' = adv
    /\ IF Len(outlines) = 0
       THEN /\ pc' = "done"
            /\ ret' = [outlines |-> <<>>, err |-> "no outlines"]
       ELSE /\ pc' = "align"
            /\ UNCHANGED ret
    /\ UNCHANGED <<aux, gb, api, font, s, scale, hbGlyphs, k, penX, prev, hasPrev, outlines,
                   raw, bnd, placed, dx, dy>>

\* After the loop: "if len(outlines) == 0 { return nil, nil }".
endLayout(adv) ==
    /\ \E a \in AlignValues : opt' = [opt EXCEPT !.Align = a]
    /\ layoutAdvance' = adv
    /\ IF Len(outlines) = 0
       THEN /\ pc' = "done"
            /\ ret' = [outlines |-> <<>>, err |-> "nil"]
       ELSE /\ pc' = "align"
            /\ UNCHANGED ret
    /\ UNCHANGED <<aux, gb, api, font, s, scale, hbGlyphs, k, penX, prev, hasPrev, outlines,
                   raw, bnd, placed, dx, dy>>

ttEnd == pc = "loop" /\ api = "truetype" /\ k > Len(s) /\ endLayout(layoutAdvance)

pfEnd ==
    /\ api = "parsed"
    /\ \/ pc = "hbloop" /\ k > Len(hbGlyphs) /\ endLayout(layoutAdvance)
       \/ pc = "loop" /\ k > Len(s) /\ endLayout(penX)

\* The alignment translation and the return; al is computeAlign's result.
alignAndReturn(al) ==
    /\ IF al.panic # ""
       THEN /\ pc' = "panic"
            /\ ret' = [outlines |-> <<>>, err |-> al.panic]
            /\ UNCHANGED <<outlines, raw, dx, dy>>
       ELSE /\ pc' = "done"
            /\ dx' = al.dx
            /\ dy' = al.dy
            /\ raw' = outlines
            /\ outlines' = translate(outlines, al.dx, al.dy)
            /\ ret' = [outlines |-> translate(outlines, al.dx, al.dy), err |-> "nil"]
    /\ UNCHANGED <<aux, gb, api, font, s, opt, scale, hbGlyphs, k, penX, prev, hasPrev,
                   layoutAdvance, bnd, placed>>

scaledAdvance_fontUnits(adv, sc) == adv * sc.den * Unit

\* layoutAdvance*scale: the run advance in model units.
scaledAdvance(adv, sc) == adv * sc.num * Unit

ttAlign ==
    /\ pc = "align" /\ api = "truetype"
    /\ alignAndReturn(computeAlign(opt.Align, bnd))

pfAlign ==
    /\ pc = "align" /\ api = "parsed"
    /\ alignAndReturn(computeAlignAdvance(opt.Align, bnd,
                                          scaledAdvance(layoutAdvance, scale)))

Next ==
    \/ ttEntry \/ ttGlyph \/ ttEnd \/ ttAlign
    \/ pfEntry \/ pfShape \/ pfShapedGlyph \/ pfFallbackGlyph \/ pfEnd \/ pfAlign
    \/ decodeGlyph

Spec == Init /\ [][Next]_vars

----------------------------------------------------------------------------
(* TextOutlines as a function of its arguments, for comparing two calls *)

\* The locals of the fallback loop after the iteration for glyph idx.
loopBody(st, idx, kerning, sp, sc, segs) ==
    LET pen == kernedPen(st.penX, st.prev, st.hasPrev, idx, kerning, sp)
        ld == Load(idx)
        contours == glyphContoursToPolylines(ld.gb, pen, sc, segs)
    IN [penX |-> IF ~ld.ok THEN advanceAfterFail(pen, idx, sp)
                 ELSE pen + (AdvanceWidth(idx) \div 64) * sp,
        prev |-> idx,
        hasPrev |-> TRUE,
        outlines |-> IF ld.ok THEN st.outlines \o contours ELSE st.outlines,
        bnd |-> IF ld.ok THEN updateBounds(st.bnd, contours) ELSE st.bnd,
        pens |-> Append(st.pens, pen)]

\* The locals after the first n iterations of "for _, r := range s".
RECURSIVE rangeLoop(_, _, _, _, _, _)
rangeLoop(str, n, kerning, sp, sc, segs) ==
    IF n = 0
    THEN [penX |-> 0, prev |-> 0, hasPrev |-> FALSE, outlines |-> <<>>,
          bnd |-> NoBounds, pens |-> <<>>]
    ELSE loopBody(rangeLoop(str, n - 1, kerning, sp, sc, segs), Index(str[n]),
                  kerning, sp, sc, segs)

\* The locals after the first n iterations of "for _, g := range hbGlyphs".
RECURSIVE shapedLoop(_, _, _, _)
shapedLoop(gs, n, sc, segs) ==
    IF n = 0 THEN [outlines |-> <<>>, bnd |-> NoBounds, pens |-> <<>>]
    ELSE LET st == shapedLoop(gs, n - 1, sc, segs)
             ld == Load(gs[n].index)
             contours == glyphContoursToPolylines(ld.gb, gs[n].penX, sc, segs)
         IN [outlines |-> IF ld.ok THEN st.outlines \o contours ELSE st.outlines,
             bnd |-> IF ld.ok THEN updateBounds(st.bnd, contours) ELSE st.bnd,
             pens |-> Append(st.pens, gs[n].penX)]

\* From the end of the layout to the return; al is computeAlign's result.
finish(lay, al) ==
    IF Len(lay.outlines) = 0
    THEN [outlines |-> <<>>, err |-> "nil", pens |-> lay.pens, advance |-> lay.advance]
    ELSE IF al.panic # ""
         THEN [outlines |-> <<>>, err |-> al.panic, pens |-> lay.pens,
               advance |-> lay.advance]
         ELSE [outlines |-> translate(lay.outlines, al.dx, al.dy), err |-> "nil",
               pens |-> lay.pens, advance |-> lay.advance]

Rejected(msg) == [outlines |-> <<>>, err |-> msg, pens |-> <<>>, advance |-> 0]

\* TextOutlines(ttFont, s, opt) of src/textcurve.go.
ttTextOutlines(f, str, o) ==
    IF f.nil THEN Rejected("nil font")
    ELSE IF o.Size <= 0 THEN Rejected("Size must be > 0")
    ELSE LET sc == [num |-> o.Size, den |-> ascentOf(lookupAscender(f), f)]
             st == rangeLoop(str, Len(str), o.Kerning, 1, sc, normSegs(o.CurveSegs))
             lay == [outlines |-> st.outlines, pens |-> st.pens, advance |-> st.penX]
         IN finish(lay, computeAlign(o.Align, st.bnd))

\* TextOutlines(parsed, s, opt) of part_001.
pfTextOutlines(f, str, o) ==
    IF f.nil THEN Rejected("nil font")
    ELSE IF o.Size <= 0 THEN Rejected("Size must be > 0")
    ELSE IF normSpacing(o.Spacing) < 0 THEN Rejected("Spacing must be >= 0")
    ELSE LET on == [o EXCEPT !.CurveSegs = normSegs(@), !.Spacing = normSpacing(@)]
             sc == [num |-> on.Size, den |-> ascentOf(f.asc, f)]
             hb == shapeGlyphsWithHarfBuzz(f, str, on)
             sh == shapedLoop(hb.glyphs, Len(hb.glyphs), sc, on.CurveSegs)
             st == rangeLoop(str, Len(str), on.Kerning, on.Spacing, sc, on.CurveSegs)
             lay == IF hb.ok
                    THEN [outlines |-> sh.outlines, pens |-> sh.pens,
                          advance |-> hb.advance, bnd |-> sh.bnd]
                    ELSE [outlines |-> st.outlines, pens |-> st.pens,
                          advance |-> st.penX, bnd |-> st.bnd]
         IN finish(lay, computeAlignAdvance(on.Align, lay.bnd,
                                            scaledAdvance(lay.advance, sc)))

\* The call the state is in, made with options o.
TextOutlines(o) ==
    IF api = "parsed" THEN pfTextOutlines(font, s, o) ELSE ttTextOutlines(font, s, o)

----------------------------------------------------------------------------
(* parseOS2TypoAscender *)

tableDirOffset == 12
recordSize == 16
typoAscOffset == 68
\* "OS/2"
os2Tag == <<79, 83, 47, 50>>
\* "head"
headTag == <<104, 101, 97, 100>>

\* A Go int holding a value read from a 32-bit field or a sum of two: c is
\* bit 32, hi bits 31..16, lo bits 15..0.
Small(n) == [c |-> 0, hi |-> 0, lo |-> n]

\* binary.BigEndian.Uint16(data[i:i+2]) and Uint32(data[i:i+4]), i 0-based.
Uint16(d, i) == d[i + 1] * 256 + d[i + 2]
Uint32(d, i) == [c |-> 0, hi |-> Uint16(d, i), lo |-> Uint16(d, i + 2)]

\* The sign of an int of w bits.
Negative(v, w) == w = 32 /\ v.hi >= 32768

\* a + b on ints of w bits, wrapping as Go does.
AddInt(a, b, w) ==
    LET lo == a.lo + b.lo
        hi == a.hi + b.hi + (lo \div 65536)
        c == a.c + b.c + (hi \div 65536)
    IN [c |-> IF w = 32 THEN 0 ELSE c % 2, hi |-> hi % 65536, lo |-> lo % 65536]

\* v > n and v < n for an int v of w bits and a small n >= 0.
GreaterInt(v, n, w) == ~Negative(v, w) /\ (v.c > 0 \/ v.hi > 0 \/ v.lo > n)
LessInt(v, n, w) == Negative(v, w) \/ (v.c = 0 /\ v.hi = 0 /\ v.lo < n)

\* int16(x) of an unsigned 16-bit x.
Int16(x) == IF x >= 32768 THEN x - 65536 ELSE x

NotFound(reads) ==
    [asc |-> 0, ok |-> FALSE, crash |-> FALSE, reads |-> reads, called |-> TRUE]

\* A slice expression out of range: the runtime panics.
Crashed(reads) ==
    [asc |-> 0, ok |-> FALSE, crash |-> TRUE, reads |-> reads, called |-> TRUE]

\* The OS/2 record at recOff: its bounds test and the read of sTypoAscender.
readTypoAscender(d, w, recOff, reads) ==
    LET tableOffset == Uint32(d, recOff + 8)
        tableLen == Uint32(d, recOff + 12)
        r2 == reads \cup ((recOff + 8)..(recOff + 15))
        from == AddInt(tableOffset, Small(typoAscOffset), w)
        to == AddInt(from, Small(2), w)
    IN IF \/ Negative(tableOffset, w) \/ Negative(tableLen, w)
          \/ GreaterInt(AddInt(tableOffset, tableLen, w), Len(d), w)
          \/ LessInt(tableLen, typoAscOffset + 2, w)
       THEN NotFound(r2)
       ELSE IF \/ Negative(from, w) \/ Negative(to, w)
               \/ GreaterInt(to, Len(d), w) \/ GreaterInt(from, Len(d), w)
            THEN Crashed(r2)
            ELSE LET rawAsc == Int16(Uint16(d, from.lo))
                 IN [asc |-> rawAsc, ok |-> rawAsc > 0, crash |-> FALSE,
                     reads |-> r2 \cup {from.lo, from.lo + 1}, called |-> TRUE]

\* The loop over the table directory from record i on.
RECURSIVE scanRecords(_, _, _, _, _)
scanRecords(d, w, i, numTables, reads) ==
    IF i >= numTables THEN NotFound(reads)
    ELSE LET recOff == tableDirOffset + i * recordSize
             tag == <<d[recOff + 1], d[recOff + 2], d[recOff + 3], d[recOff + 4]>>
             r1 == reads \cup (recOff..(recOff + 3))
         IN IF tag # os2Tag THEN scanRecords(d, w, i + 1, numTables, r1)
            ELSE readTypoAscender(d, w, recOff, r1)

parseOS2TypoAscender(d, w) ==
    IF Len(d) < tableDirOffset THEN NotFound({})
    ELSE LET numTables == Uint16(d, 4)
         IN IF numTables < 0 \/ Len(d) < tableDirOffset + numTables * recordSize
            THEN NotFound({4, 5})
            ELSE scanRecords(d, w, 0, numTables, {4, 5})

\* Most table records placed before the one examined.
MaxHead == 1

\* Byte j (0 the most significant) of a 32-bit field.
FieldByte(v, j) ==
    CASE j = 0 -> v.hi \div 256
      [] j = 1 -> v.hi % 256
      [] j = 2 -> v.lo \div 256
      [] OTHER -> v.lo % 256

\* The byte at 0-based position q of a font file laid out as: numTables at
\* 4, the records of lay.recs from 12 on, and the 16-bit value lay.val
\* repeated at every even position after them.
ByteAt(lay, q) ==
    IF q = 4 THEN lay.numTables \div 256
    ELSE IF q = 5 THEN lay.numTables % 256
    ELSE IF q < tableDirOffset THEN 0
    ELSE IF q < tableDirOffset + recordSize * Len(lay.recs)
         THEN LET r == lay.recs[((q - tableDirOffset) \div recordSize) + 1]
                  o == (q - tableDirOffset) % recordSize
              IN IF o < 4 THEN r.tag[o + 1]
                 ELSE IF o < 8 THEN 0
                 ELSE IF o < 12 THEN FieldByte(r.off, o - 8)
                 ELSE FieldByte(r.len, o - 12)
         ELSE IF q % 2 = 0 THEN lay.val \div 256 ELSE lay.val % 256

FontBytes(lay) == [q \in 1..lay.len |-> ByteAt(lay, q - 1)]

\* Offsets and lengths a record may carry: in range, and 0x7FFFFFF0,
\* 0x80000000, 0xFFFFFFE4.
Big == {[c |-> 0, hi |-> 32767, lo |-> 65520], [c |-> 0, hi |-> 32768, lo |-> 0],
        [c |-> 0, hi |-> 65535, lo |-> 65508]}
Offsets == {Small(0), Small(28), Small(44)} \cup Big
Lengths == {Small(0), Small(69), Small(70), Small(86)} \cup Big

Heads(n) == [i \in 1..n |-> [tag |-> headTag, off |-> Small(0), len |-> Small(12)]]

Layouts ==
    [len : {0, 11, 12, 27, 28, 43, 44, 69, 70, 97, 98, 113, 114, 130},
     numTables : (0..(MaxHead + 1)) \cup {4096},
     recs : UNION {{Heads(n)} \cup
                   {Append(Heads(n), [tag |-> os2Tag, off |-> o, len |-> l]) :
                       o \in Offsets, l \in Lengths} : n \in 0..MaxHead},
     val : {800, 0, 65486}]

\* No TextOutlines call in the picture.
IdleCall ==
    /\ api = "none" /\ font = NilFont /\ s = <<>>
    /\ opt = [Size |-> 10, CurveSegs |-> 1, Kerning |-> FALSE, Spacing |-> 1,
              Align |-> Unread]
    /\ pc = "idle" /\ scale = [num |-> 0, den |-> 1]
    /\ hbGlyphs = <<>> /\ k = 1 /\ penX = 0 /\ prev = 0 /\ hasPrev = FALSE
    /\ gb = NoGlyph /\ layoutAdvance = 0 /\ outlines = <<>> /\ raw = <<>>
    /\ bnd = NoBounds /\ placed = <<>> /\ dx = Fin(0) /\ dy = Fin(0) /\ ret = NoRet

InitOS2 ==
    /\ IdleCall
    /\ layout \in Layouts
    /\ data = FontBytes(layout)
    /\ intBits \in {32, 64}
    /\ os2ret = NoResult
    /\ IdleCache /\ IdleFloat

\* parseOS2TypoAscender(data)
callParseOS2 ==
    /\ pc = "idle" /\ ~os2ret.called
    /\ os2ret' = parseOS2TypoAscender(data, intBits)
    /\ UNCHANGED <<tovars, data, layout, intBits, cachevars, fcall>>

NextOS2 == callParseOS2

SpecOS2 == InitOS2 /\ [][NextOS2]_vars

----------------------------------------------------------------------------
(* The ascender cache under concurrent calls *)

\* What parseOS2TypoAscender may return for a font's bytes.
FileResults == {[asc |-> 800, ok |-> TRUE], [asc |-> -50, ok |-> FALSE]}

InitCache ==
    /\ IdleCall /\ IdleOS2 /\ IdleFloat
    /\ fontAscenders = [h \in Handles |-> 0]
    /\ fontFile \in [Handles -> FileResults]
    /\ ppc = [h \in Handles |-> "start"]
    /\ cpc = [c \in Callers |-> "idle"]
    /\ chandle = [c \in Callers |-> 0]
    /\ seen = [c \in Callers |-> 0]
    /\ cret = [c \in Callers |-> NoRet]

\* ParseTTF: f, err := truetype.Parse(ttfBytes), a fresh handle.
parseFont(h) ==
    /\ ppc[h] = "start"
    /\ ppc' = [ppc EXCEPT ![h] = "parsed"]
    /\ UNCHANGED <<tovars, os2vars, fcall, fontAscenders, fontFile, cpc, chandle, seen, cret>>

\* ParseTTF: "if asc, ok := parseOS2TypoAscender(ttfBytes); ok && asc > 0
\* { fontAscenders.Store(f, asc) }".
storeAscender(h) ==
    /\ ppc[h] = "parsed"
    /\ fontAscenders' = IF fontFile[h].ok /\ fontFile[h].asc > 0
                        THEN [fontAscenders EXCEPT ![h] = fontFile[h].asc]
                        ELSE fontAscenders
    /\ ppc' = [ppc EXCEPT ![h] = "stored"]
    /\ UNCHANGED <<tovars, os2vars, fcall, fontFile, cpc, chandle, seen, cret>>

\* ParseTTF: return f, nil.
returnFont(h) ==
    /\ ppc[h] = "stored"
    /\ ppc' = [ppc EXCEPT ![h] = "returned"]
    /\ UNCHANGED <<tovars, os2vars, fcall, fontAscenders, fontFile, cpc, chandle, seen, cret>>

Visible_beforeStore(h) == ppc[h] \in {"parsed", "stored", "returned"}

\* A handle can be passed to TextOutlines once ParseTTF has returned it.
Visible(h) == ppc[h] = "returned"

\* TextOutlines(ttFont, s, opt) entered with handle h.
callTextOutlines(c, h) ==
    /\ cpc[c] = "idle" /\ Visible(h)
    /\ cpc' = [cpc EXCEPT ![c] = "called"]
    /\ chandle' = [chandle EXCEPT ![c] = h]
    /\ UNCHANGED <<tovars, os2vars, fcall, fontAscenders, fontFile, ppc, seen, cret>>

\* ascent := lookupAscender(ttFont): fontAscenders.Load, 0 when absent.
loadAscender(c) ==
    /\ cpc[c] = "called"
    /\ seen' = [seen EXCEPT ![c] = fontAscenders[chandle[c]]]
    /\ cpc' = [cpc EXCEPT ![c] = "looked"]
    /\ UNCHANGED <<tovars, os2vars, fcall, fontAscenders, fontFile, ppc, chandle, cret>>

\* The text and options every concurrent caller passes.
SharedText == <<"A">>
SharedOpt ==
    [Size |-> 10, CurveSegs |-> 1, Kerning |-> FALSE, Spacing |-> 1,
     Align |-> [HAlign |-> HAlignCenter, VAlign |-> VAlignTop]]

\* The rest of TextOutlines, run with the ascender the lookup returned.
finishTextOutlines(c) ==
    /\ cpc[c] = "looked"
    /\ cret' = [cret EXCEPT ![c] =
                   LET r == ttTextOutlines(FontRec(FALSE, seen[c], 900, FALSE),
                                           SharedText, SharedOpt)
                   IN [outlines |-> r.outlines, err |-> r.err]]
    /\ cpc' = [cpc EXCEPT ![c] = "done"]
    /\ UNCHANGED <<tovars, os2vars, fcall, fontAscenders, fontFile, ppc, chandle, seen>>

NextCache ==
    \/ \E h \in Handles : parseFont(h) \/ storeAscender(h) \/ returnFont(h)
    \/ \E c \in Callers : (\E h \in Handles : callTextOutlines(c, h))
                          \/ loadAscender(c) \/ finishTextOutlines(c)

SpecCache == InitCache /\ [][NextCache]_vars

----------------------------------------------------------------------------
(* TextOutlines where a float64 may be +Inf, -Inf or NaN.  Options.Size is *)
(* a float64 and the entry checks only compare it with 0, so the scale and *)
(* every coordinate derived from it are extended values here: Fin(v) with  *)
(* v the integer of the finite model, PInf, NInf or NaN, under the IEEE    *)
(* rules (0 * Inf = NaN, Inf - Inf = NaN, every comparison with NaN false, *)
(* NaN != NaN).                                                            *)

\* a * (n / d) for a float64 a and the finite factor n / d, d > 0.
ExtScale(a, n, d) ==
    CASE a.k = "nan" -> NaN
      [] a.k = "fin" -> Fin((a.v * n) \div d)
      [] n = 0 -> NaN
      [] n > 0 -> a
      [] OTHER -> ExtNeg(a)

\* a < b and a == b of float64.
ExtLess(a, b) ==
    CASE a.k = "nan" \/ b.k = "nan" -> FALSE
      [] a.k = "fin" /\ b.k = "fin" -> a.v < b.v
      [] a.k = b.k -> FALSE
      [] OTHER -> a.k = "ninf" \/ b.k = "pinf"
ExtEq(a, b) == a.k # "nan" /\ b.k # "nan" /\ a = b

\* p != q of model2d.Coord: some field differs.
CoordNe(p, q) == ~(ExtEq(p.X, q.X) /\ ExtEq(p.Y, q.Y))

\* "opt.Size <= 0"
SizeRejected(size) == ExtLess(size, Fin(0)) \/ ExtEq(size, Fin(0))

\* scale := opt.Size / ascent, in the units of the stored coordinates.
scaleF(size) == ExtScale(size, Unit, 1)

toVecF(p, pen, sc) ==
    XY(ExtScale(sc, (p.X \div 64) + pen, 1), ExtScale(sc, p.Y \div 64, 1))

\* Coord.Mid: the sum scaled by 0.5.
MidF(a, b) == XY(ExtHalf(ExtAdd(a.X, b.X)), ExtHalf(ExtAdd(a.Y, b.Y)))

\* p0.Scale(u*u).Add(p1.Scale(2*u*t)).Add(p2.Scale(t*t)) at t = i / segs.
quadPointF(p0, p1, p2, segs, i) ==
    LET u == segs - i
        q == segs * segs
    IN XY(ExtAdd(ExtAdd(ExtScale(p0.X, u * u, q), ExtScale(p1.X, 2 * u * i, q)),
                 ExtScale(p2.X, i * i, q)),
          ExtAdd(ExtAdd(ExtScale(p0.Y, u * u, q), ExtScale(p1.Y, 2 * u * i, q)),
                 ExtScale(p2.Y, i * i, q)))

flattenQuadF(p0, p1, p2, segs) ==
    [i \in 1..segs |-> quadPointF(p0, p1, p2, segs, i)]

chooseStartF(pts, pen, sc) ==
    LET n == Len(pts)
    IN IF onCurve(pts[1]) THEN [start |-> toVecF(pts[1], pen, sc), startIdx |-> 0]
       ELSE IF onCurve(pts[n])
            THEN [start |-> toVecF(pts[n], pen, sc), startIdx |-> n - 1]
            ELSE [start |-> MidF(toVecF(pts[n], pen, sc), toVecF(pts[1], pen, sc)),
                  startIdx |-> 0]

walkStepF(pts, pen, sc, segs, i, w) ==
    LET p == pts[i + 1]
        c == toVecF(p, pen, sc)
    IN IF onCurve(p)
       THEN IF w.haveCtrl
            THEN [w EXCEPT !.poly = @ \o flattenQuadF(w.prevOn, w.ctrl, c, segs),
                           !.haveCtrl = FALSE, !.prevOn = c]
            ELSE [w EXCEPT !.poly = Append(@, c), !.prevOn = c]
       ELSE IF w.haveCtrl
            THEN LET implied == MidF(w.ctrl, c)
                 IN [w EXCEPT !.poly = @ \o flattenQuadF(w.prevOn, w.ctrl, implied, segs),
                              !.prevOn = implied, !.ctrl = c, !.haveCtrl = TRUE]
            ELSE [w EXCEPT !.ctrl = c, !.haveCtrl = TRUE]

RECURSIVE walkF(_, _, _, _, _, _, _)
walkF(pts, pen, sc, segs, i, steps, w) ==
    IF steps >= Len(pts) THEN w
    ELSE walkF(pts, pen, sc, segs, (i + 1) % Len(pts), steps + 1,
               walkStepF(pts, pen, sc, segs, i, w))

walkedF(pts, pen, sc, segs) ==
    LET st == chooseStartF(pts, pen, sc)
    IN walkF(pts, pen, sc, segs, (st.startIdx + 1) % Len(pts), 0,
             [poly |-> <<st.start>>, prevOn |-> st.start, haveCtrl |-> FALSE,
              ctrl |-> XY(Fin(0), Fin(0))])

closeContourF(w, start, segs) ==
    LET a == IF w.haveCtrl
             THEN w.poly \o flattenQuadF(w.prevOn, w.ctrl, start, segs)
             ELSE IF CoordNe(w.poly[Len(w.poly)], start) THEN Append(w.poly, start)
                  ELSE w.poly
    IN IF CoordNe(a[Len(a)], a[1]) THEN Append(a, a[1]) ELSE a

flattenTrueTypeContourF(pts, pen, sc, segs) ==
    IF Len(pts) = 0 THEN <<>>
    ELSE dropShort(closeContourF(walkedF(pts, pen, sc, segs),
                                 chooseStartF(pts, pen, sc).start, segs))

RECURSIVE contoursFromF(_, _, _, _, _, _, _)
contoursFromF(pts, ends, j, start, pen, sc, segs) ==
    IF j > Len(ends) THEN <<>>
    ELSE LET contourPts == Slice(pts, start, ends[j])
             poly == flattenTrueTypeContourF(contourPts, pen, sc, segs)
             rest == contoursFromF(pts, ends, j + 1, ends[j], pen, sc, segs)
         IN IF Len(contourPts) = 0 THEN rest
            ELSE IF Len(poly) >= 3 THEN <<poly>> \o rest
                 ELSE rest

glyphContoursToPolylinesF(buf, pen, sc, segs) ==
    contoursFromF(buf.Points, buf.Ends, 1, 0, pen, sc, segs)

\* The four comparisons of the "update bounds" loops for one point.
foldPoint(b, p) ==
    [minX |-> IF ExtLess(p.X, b.minX) THEN p.X ELSE b.minX,
     minY |-> IF ExtLess(p.Y, b.minY) THEN p.Y ELSE b.minY,
     maxX |-> IF ExtLess(b.maxX, p.X) THEN p.X ELSE b.maxX,
     maxY |-> IF ExtLess(b.maxY, p.Y) THEN p.Y ELSE b.maxY]

RECURSIVE foldContour(_, _, _)
foldContour(b, c, j) ==
    IF j > Len(c) THEN b ELSE foldContour(foldPoint(b, c[j]), c, j + 1)

RECURSIVE updateBoundsF(_, _, _)
updateBoundsF(b, contours, i) ==
    IF i > Len(contours) THEN b
    ELSE updateBoundsF(foldContour(b, contours[i], 1), contours, i + 1)

\* computeAlign of part_001 with the float64 advance.
computeAlignAdvanceF(a, b, advanceWidth) ==
    LET width == ExtSub(b.maxX, b.minX)
    IN [panic |-> alignPanic(a),
        dx |-> CASE a.HAlign = HAlignRight -> ExtNeg(advanceWidth)
                 [] a.HAlign = HAlignCenter -> ExtNeg(ExtAdd(b.minX, ExtHalf(width)))
                 [] OTHER -> Fin(0),
        dy |-> alignDy(a.VAlign, b)]

translateF(cs, ddx, ddy) ==
    [i \in 1..Len(cs) |->
        [j \in 1..Len(cs[i]) |-> XY(ExtAdd(cs[i][j].X, ddx), ExtAdd(cs[i][j].Y, ddy))]]

loopBodyF(st, idx, kerning, sp, sc, segs) ==
    LET pen == kernedPen(st.penX, st.prev, st.hasPrev, idx, kerning, sp)
        ld == Load(idx)
        contours == glyphContoursToPolylinesF(ld.gb, pen, sc, segs)
    IN [penX |-> IF ~ld.ok THEN advanceAfterFail(pen, idx, sp)
                 ELSE pen + (AdvanceWidth(idx) \div 64) * sp,
        prev |-> idx,
        hasPrev |-> TRUE,
        outlines |-> IF ld.ok THEN st.outlines \o contours ELSE st.outlines,
        bnd |-> IF ld.ok THEN updateBoundsF(st.bnd, contours, 1) ELSE st.bnd]

RECURSIVE rangeLoopF(_, _, _, _, _, _)
rangeLoopF(str, n, kerning, sp, sc, segs) ==
    IF n = 0
    THEN [penX |-> 0, prev |-> 0, hasPrev |-> FALSE, outlines |-> <<>>, bnd |-> NoBounds]
    ELSE loopBodyF(rangeLoopF(str, n - 1, kerning, sp, sc, segs), Index(str[n]),
                   kerning, sp, sc, segs)

RECURSIVE shapedLoopF(_, _, _, _)
shapedLoopF(gs, n, sc, segs) ==
    IF n = 0 THEN [outlines |-> <<>>, bnd |-> NoBounds]
    ELSE LET st == shapedLoopF(gs, n - 1, sc, segs)
             ld == Load(gs[n].index)
             contours == glyphContoursToPolylinesF(ld.gb, gs[n].penX, sc, segs)
         IN [outlines |-> IF ld.ok THEN st.outlines \o contours ELSE st.outlines,
             bnd |-> IF ld.ok THEN updateBoundsF(st.bnd, contours, 1) ELSE st.bnd]

\* From the end of the layout to the return; aligned tells that computeAlign
\* was called, bnd are the bounds it was called with.
finishF(lay, al) ==
    IF Len(lay.outlines) = 0
    THEN [NoFloatRet EXCEPT !.err = "nil", !.bnd = lay.bnd]
    ELSE IF al.panic # ""
         THEN [NoFloatRet EXCEPT !.err = al.panic, !.aligned = TRUE, !.bnd = lay.bnd]
         ELSE [outlines |-> translateF(lay.outlines, al.dx, al.dy), err |-> "nil",
               aligned |-> TRUE, bnd |-> lay.bnd, dx |-> al.dx, dy |-> al.dy]

\* TextOutlines(ttFont, s, opt) of src/textcurve.go.
ttTextOutlinesF(f, str, o) ==
    IF f.nil THEN [NoFloatRet EXCEPT !.err = "nil font"]
    ELSE IF SizeRejected(o.Size) THEN [NoFloatRet EXCEPT !.err = "Size must be > 0"]
    ELSE LET st == rangeLoopF(str, Len(str), o.Kerning, 1, scaleF(o.Size),
                              normSegs(o.CurveSegs))
         IN finishF(st, computeAlign(o.Align, st.bnd))

\* TextOutlines(parsed, s, opt) of part_001.
pfTextOutlinesF(f, str, o) ==
    IF f.nil THEN [NoFloatRet EXCEPT !.err = "nil font"]
    ELSE IF SizeRejected(o.Size) THEN [NoFloatRet EXCEPT !.err = "Size must be > 0"]
    ELSE IF normSpacing(o.Spacing) < 0
         THEN [NoFloatRet EXCEPT !.err = "Spacing must be >= 0"]
    ELSE LET on == [o EXCEPT !.CurveSegs = normSegs(@), !.Spacing = normSpacing(@)]
             sc == scaleF(on.Size)
             hb == shapeGlyphsWithHarfBuzz(f, str, on)
             sh == shapedLoopF(hb.glyphs, Len(hb.glyphs), sc, on.CurveSegs)
             st == rangeLoopF(str, Len(str), on.Kerning, on.Spacing, sc, on.CurveSegs)
             lay == IF hb.ok THEN sh ELSE [outlines |-> st.outlines, bnd |-> st.bnd]
             advance == IF hb.ok THEN hb.advance ELSE st.penX
         IN finishF(lay, computeAlignAdvanceF(on.Align, lay.bnd, ExtScale(sc, advance, 1)))

\* The sizes explored: a finite positive one, zero, and the non-finite ones.
FloatSizes == {Fin(10), Fin(0), PInf, NInf, NaN}
FloatFonts == {FontRec(FALSE, 800, 900, TRUE), FontRec(FALSE, 800, 900, FALSE)}

InitFloat ==
    /\ IdleCall /\ IdleOS2 /\ IdleCache
    /\ fcall \in [pc : {"call"}, api : {"truetype", "parsed"}, font : FloatFonts,
                  s : Texts,
                  opt : [Size : FloatSizes, CurveSegs : {1, 2}, Kerning : BOOLEAN,
                         Spacing : {1}, Align : [HAlign : HAligns, VAlign : VAligns]],
                  ret : {NoFloatRet}]

\* One call, from entry to return.
callTextOutlinesF ==
    /\ fcall.pc = "call"
    /\ fcall' = [fcall EXCEPT
                    !.pc = "returned",
                    !.ret = IF fcall.api = "parsed"
                            THEN pfTextOutlinesF(fcall.font, fcall.s, fcall.opt)
                            ELSE ttTextOutlinesF(fcall.font, fcall.s, fcall.opt)]
    /\ UNCHANGED <<tovars, os2vars, cachevars>>

NextFloat == callTextOutlinesF

SpecFloat == InitFloat /\ [][NextFloat]_vars

----------------------------------------------------------------------------
(* Properties *)

Closed(c) == c[1] = c[Len(c)]

\* The contour point lists of a glyph buffer: Points[Ends[j-1] .. Ends[j]).
ContourSlices(buf) ==
    {Slice(buf.Points, IF j = 1 THEN 0 ELSE buf.Ends[j - 1], buf.Ends[j]) :
        j \in 1..Len(buf.Ends)}

Decoded(c) == flattenTrueTypeContour(c, penX, scale, opt.CurveSegs)

InCall == api \in {"truetype", "parsed"}
Returned == InCall /\ pc = "done" /\ ret.err = "nil" /\ Len(ret.outlines) > 0

\* C1: every contour is closed, first point = last point, both as decoded
\* (the contours accumulated from flattenTrueTypeContour) and in the returned,
\* translated outline set.
C1_Closure ==
    /\ \A i \in 1..Len(outlines) : Closed(outlines[i])
    /\ \A i \in 1..Len(ret.outlines) : Closed(ret.outlines[i])

\* A returned set, translated in both directions.
C1_Witness ==
    /\ Returned
    /\ opt.Align = [HAlign |-> HAlignCenter, VAlign |-> VAlignTop]
    /\ dx.v # 0 /\ dy.v # 0

\* C2: no contour has fewer than 4 points: the decoder returns nothing or at
\* least 4 points for every contour of the glyph buffer, and neither the
\* accumulated nor the returned outline set holds a shorter polyline.
C2_MinSize ==
    /\ \A i \in 1..Len(outlines) : Len(outlines[i]) >= 4
    /\ \A i \in 1..Len(ret.outlines) : Len(ret.outlines[i]) >= 4
    /\ pc \notin {"entry", "shape"} =>
          \A c \in ContourSlices(gb) : Len(Decoded(c)) = 0 \/ Len(Decoded(c)) >= 4

\* A glyph decoded to one contour while another of its contours, not empty,
\* was dropped.
C2_Witness ==
    /\ pc = "decoded"
    /\ Len(outlines) = 1
    /\ \E c \in ContourSlices(gb) : Len(c) > 0 /\ Len(Decoded(c)) = 0

\* The run's total advance in font units: the final pen position.
runAdvance == IF api = "parsed" THEN layoutAdvance ELSE penX

\* The ink bounding box of an outline set.
inkBounds(cs) ==
    LET P == AllPoints(cs)
    IN [minX |-> SetMin({p.X : p \in P}), maxX |-> SetMax({p.X : p \in P}),
        minY |-> SetMin({p.Y : p \in P}), maxY |-> SetMax({p.Y : p \in P})]

\* C3: with horizontal-right alignment the translation is the negated total
\* advance in model units (final pen-X times scale), not the negated ink
\* maximum.
C3_RightIsAdvance ==
    (Returned /\ opt.Align.HAlign = HAlignRight) =>
        dx = Fin(-(runAdvance * scale.num * Unit))

\* C4: horizontal-left gives dx = 0 and vertical-baseline gives dy = 0, and
\* under left/baseline every returned point is its untranslated value.
C4_LeftBaselineNoShift ==
    Returned =>
        /\ opt.Align.HAlign = HAlignLeft => dx = Fin(0)
        /\ opt.Align.VAlign = VAlignBaseline => dy = Fin(0)
        /\ opt.Align = [HAlign |-> HAlignLeft, VAlign |-> VAlignBaseline] =>
              ret.outlines = raw

\* A model-unit value v = a / b in the stored representation.
IsRatio(stored, a, b) == stored * b = a * scale.den * Unit

\* C5: the 1000-upem, ascender-800 font, text "A", Size 10, left/baseline,
\* kerning off: scale = 10/800 and the result is the single contour
\* (1.25,0) (6.25,0) (3.75,8.75) (1.25,0), for every CurveSegs.
C5_ScenarioA ==
    (/\ InCall /\ pc = "done"
     /\ ~font.nil /\ font.upem = 1000 /\ font.asc = 800
     /\ s = <<"A">> /\ opt.Size = 10 /\ ~opt.Kerning /\ opt.Spacing = 1
     /\ opt.Align = [HAlign |-> HAlignLeft, VAlign |-> VAlignBaseline]) =>
        /\ scale = [num |-> 10, den |-> 800]
        /\ ret.err = "nil"
        /\ Len(ret.outlines) = 1
        /\ Len(ret.outlines[1]) = 4
        /\ IsRatio(ret.outlines[1][1].X, 5, 4) /\ ret.outlines[1][1].Y = 0
        /\ IsRatio(ret.outlines[1][2].X, 25, 4) /\ ret.outlines[1][2].Y = 0
        /\ IsRatio(ret.outlines[1][3].X, 15, 4)
        /\ IsRatio(ret.outlines[1][3].Y, 35, 4)
        /\ ret.outlines[1][4] = ret.outlines[1][1]

\* C6: each of the 12 alignments is accepted, and the returned ink box has
\* minX + maxX = 0 under horizontal-center, maxY = 0 under top, minY = 0
\* under bottom, minY + maxY = 0 under vertical-center; every point moved by
\* the same (dx, dy).
C6_AlignedInk ==
    /\ pc = "panic" => opt.Align.HAlign \notin HAligns \/ opt.Align.VAlign \notin VAligns
    /\ (InCall /\ pc = "done" /\ Len(outlines) > 0) =>
          LET b == inkBounds(ret.outlines)
          IN /\ ret.err = "nil"
             /\ opt.Align.HAlign \in HAligns /\ opt.Align.VAlign \in VAligns
             /\ opt.Align.HAlign = HAlignCenter => b.minX + b.maxX = 0
             /\ opt.Align.VAlign = VAlignTop => b.maxY = 0
             /\ opt.Align.VAlign = VAlignBottom => b.minY = 0
             /\ opt.Align.VAlign = VAlignCenter => b.minY + b.maxY = 0
             /\ Len(ret.outlines) = Len(raw)
             /\ \A i \in 1..Len(raw) :
                   /\ Len(ret.outlines[i]) = Len(raw[i])
                   /\ \A j \in 1..Len(raw[i]) :
                         /\ ret.outlines[i][j].X - raw[i][j].X = dx.v
                         /\ ret.outlines[i][j].Y - raw[i][j].Y = dy.v

\* Center/center on ink that is centred on neither axis before the move.
C6_Witness ==
    /\ Returned
    /\ opt.Align = [HAlign |-> HAlignCenter, VAlign |-> VAlignCenter]
    /\ Len(ret.outlines) > 1
    /\ dx.v # 0 /\ dy.v # 0

\* A rune that contributes no contour: its glyph fails to load or decodes to
\* nothing.
Blank(r) ==
    \/ ~Load(Index(r)).ok
    \/ glyphContoursToPolylines(Load(Index(r)).gb, 0, [num |-> 1, den |-> 1], 1) = <<>>

ValidConfig == ~font.nil /\ opt.Size > 0 /\ opt.Spacing >= 0

\* C7: a text none of whose glyphs contributes a contour (the empty string
\* included) returns the empty outline set and no error under every valid
\* configuration, on the shaping path and on the fallback paths.
C7_EmptyResult ==
    (InCall /\ ValidConfig /\ \A i \in 1..Len(s) : Blank(s[i])) =>
        /\ pc \in {"entry", "shape", "loop", "hbloop", "done"}
        /\ pc = "done" => ret = [outlines |-> <<>>, err |-> "nil"]

\* Whitespace followed by a glyph that fails to load, on the shaping path.
C7_Witness ==
    /\ api = "parsed" /\ font.hbFace /\ pc = "done"
    /\ s = <<" ", "x">> /\ Len(placed) = 2
    /\ ret = [outlines |-> <<>>, err |-> "nil"]

InvalidConfig == font.nil \/ opt.Size <= 0 \/ opt.Spacing < 0

\* C8: a nil font, Size <= 0 or a negative spacing multiplier makes the call
\* return an error and no outlines before any glyph is processed, for every
\* text; a multiplier of exactly 0 is accepted and becomes 1.
C8_RejectConfig ==
    [][(InCall /\ pc = "entry") =>
          IF InvalidConfig
          THEN /\ pc' = "done"
               /\ ret'.err \notin {"", "nil"}
               /\ ret'.outlines = <<>>
               /\ placed' = <<>> /\ outlines' = <<>> /\ gb' = NoGlyph
          ELSE /\ pc' \in {"shape", "loop"}
               /\ ret' = NoRet
               /\ opt.Spacing = 0 => opt'.Spacing = 1
               /\ opt.Spacing # 0 => opt'.Spacing = opt.Spacing]_vars

\* A negative multiplier rejected on a text of two runes.
C8_Witness ==
    /\ api = "parsed" /\ pc = "done" /\ Len(s) = 2
    /\ opt.Spacing < 0
    /\ ret = [outlines |-> <<>>, err |-> "Spacing must be >= 0"]

BadAlign(a) == a # Unread /\ (a.HAlign \notin HAligns \/ a.VAlign \notin VAligns)

\* C9 as stated: every call that carries an alignment value outside the
\* enumerations fails, the calls whose text yields no contour included.
C9_BadAlignAlwaysFails ==
    (InCall /\ pc = "done" /\ BadAlign(opt.Align)) => ret.err # "nil"

\* C9 amended: a call that carries such a value and has decoded at least
\* one contour panics in computeAlign (HAlign examined first) and returns
\* nothing; a call whose text yields no contour returns the empty set with
\* no error, its alignment never examined.
C9_BadAlignPanicsWithInk ==
    (InCall /\ BadAlign(opt.Align)) =>
        IF Len(outlines) = 0
        THEN pc = "done" /\ ret = [outlines |-> <<>>, err |-> "nil"]
        ELSE /\ pc \in {"align", "panic"}
             /\ pc = "panic" =>
                   ret = [outlines |-> <<>>,
                          err |-> IF opt.Align.HAlign \notin HAligns
                                  THEN "unknown HAlign" ELSE "unknown VAlign"]

\* The panic of the vertical switch, reached with a valid HAlign.
C9_Witness ==
    /\ pc = "panic" /\ ret.err = "unknown VAlign"
    /\ opt.Align.HAlign = HAlignRight /\ Len(outlines) > 0

\* The multiplier of the fallback loop.
spacingOf == IF api = "parsed" THEN opt.Spacing ELSE 1

\* The pen position after the first i runes of the text, computed from
\* advances and kerning alone, whatever loaded.
RECURSIVE penEnd(_)
penEnd(i) ==
    IF i = 0 THEN 0
    ELSE penEnd(i - 1)
         + (IF opt.Kerning /\ i > 1
            THEN (Kern(Index(s[i - 1]), Index(s[i])) \div 64) * spacingOf
            ELSE 0)
         + (AdvanceWidth(Index(s[i])) \div 64) * spacingOf

\* The pen position at which rune i is placed.
penAt(i) == penEnd(i) - (AdvanceWidth(Index(s[i])) \div 64) * spacingOf

\* The number of contours the loaded glyphs among the first n placed hold.
RECURSIVE inkCount(_)
inkCount(n) ==
    IF n = 0 THEN 0
    ELSE inkCount(n - 1)
         + IF placed[n].loaded
           THEN Len(glyphContoursToPolylines(Load(placed[n].idx).gb, placed[n].penX,
                                             scale, opt.CurveSegs))
           ELSE 0

OnFallback == InCall /\ pc \in {"loop", "align", "done", "panic"}
                     /\ ~(api = "parsed" /\ font.hbFace) /\ ~InvalidConfig

\* C10: in the fallback loop a glyph whose outline fails to load does not
\* abort the run: every rune is placed in turn at the pen position fixed by
\* the advances (and kerning) of the runes before it, loaded or not; the
\* failed glyph adds no contour; and the call ends without an error.
C10_FailedGlyphIsBlank ==
    OnFallback =>
        /\ Len(placed) = k - 1
        /\ \A i \in 1..Len(placed) :
              /\ placed[i].idx = Index(s[i])
              /\ placed[i].penX = penAt(i)
              /\ placed[i].loaded = Load(Index(s[i])).ok
        /\ penX = penEnd(Len(placed))
        /\ Len(IF pc = "done" THEN raw ELSE outlines) = inkCount(Len(placed))
             \/ (pc = "done" /\ Len(outlines) = 0)
        /\ pc = "done" => Len(placed) = Len(s) /\ ret.err = "nil"

\* A failed glyph first, then "A" placed one advance (and kern) further on.
C10_Witness ==
    /\ OnFallback /\ pc = "done" /\ s = <<"x", "A">>
    /\ opt.Kerning /\ spacingOf = 2
    /\ ~placed[1].loaded /\ placed[2].penX = 2 * (500 - 20)
    /\ Len(ret.outlines) = 1 /\ ret.err = "nil"

\* The same call with the Kerning option flipped.
kernFlipped == TextOutlines([opt EXCEPT !.Kerning = ~opt.Kerning])

LaidOut == pc \in {"align", "done", "panic"}

\* C11: on the fallback paths, for a run of two codepoints whose pair has
\* kerning value kv, the second glyph's pen-X with Kerning on minus its pen-X
\* with Kerning off is kv * spacing, the first glyph's pen-X is 0 both times,
\* and the total advance differs by the same kv * spacing.
C11_KerningShift ==
    (OnFallback /\ LaidOut /\ Len(s) = 2) =>
        LET kv == Kern(Index(s[1]), Index(s[2])) \div 64
            sgn == IF opt.Kerning THEN 1 ELSE -1
            other == kernFlipped
        IN /\ Len(placed) = 2 /\ Len(other.pens) = 2
           /\ placed[1].penX = 0 /\ other.pens[1] = 0
           /\ sgn * (placed[2].penX - other.pens[2]) = kv * spacingOf
           /\ sgn * (runAdvance - other.advance) = kv * spacingOf

\* "A" then "j" (kerning -50) under spacing 2, kerning on.
C11_Witness ==
    /\ OnFallback /\ pc = "done" /\ s = <<"A", "j">>
    /\ opt.Kerning /\ spacingOf = 2
    /\ placed[2].penX = 1100 /\ kernFlipped.pens[2] = 1200
    /\ runAdvance = 1900 /\ kernFlipped.advance = 2000

\* The same call with Size doubled.
sizeDoubled == TextOutlines([opt EXCEPT !.Size = 2 * opt.Size])

\* C12: the call with Size doubled returns the same number of contours and
\* points, every coordinate exactly twice the original one, under each of
\* the 12 alignments.
C12_ScaleLinear ==
    (InCall /\ pc = "done" /\ ret.err = "nil") =>
        LET d == sizeDoubled
        IN /\ d.err = "nil"
           /\ Len(d.outlines) = Len(ret.outlines)
           /\ \A i \in 1..Len(ret.outlines) :
                 /\ Len(d.outlines[i]) = Len(ret.outlines[i])
                 /\ \A j \in 1..Len(ret.outlines[i]) :
                       /\ d.outlines[i][j].X = 2 * ret.outlines[i][j].X
                       /\ d.outlines[i][j].Y = 2 * ret.outlines[i][j].Y

\* Two glyphs, the second at a nonzero pen, curves flattened, centred.
C12_Witness ==
    /\ Returned /\ s = <<"A", "j">> /\ opt.CurveSegs = 2
    /\ opt.Align = [HAlign |-> HAlignCenter, VAlign |-> VAlignCenter]
    /\ Len(ret.outlines) > 1
    /\ ret.outlines[2][1].X # 0
    /\ LET d == sizeDoubled
       IN /\ Len(d.outlines) = Len(ret.outlines)
          /\ d.outlines[2][1].X = 2 * ret.outlines[2][1].X

\* computeAlign run again on the returned outline set: its ink bounds
\* recomputed, the same alignment and the same run advance.
realigned ==
    LET b == updateBounds(NoBounds, ret.outlines)
    IN IF api = "parsed"
       THEN computeAlignAdvance(opt.Align, b, scaledAdvance(layoutAdvance, scale))
       ELSE computeAlign(opt.Align, b)

\* C13 as stated: the second computation yields dx = 0 and dy = 0 for each
\* of the 3 horizontal and 4 vertical anchors, horizontal-right included.
C13_RealignIsZero ==
    Returned => realigned.dx = Fin(0) /\ realigned.dy = Fin(0)

\* C13 amended: the second computation yields dy = 0 for each vertical
\* anchor and dx = 0 for horizontal-left and horizontal-center; for
\* horizontal-right it yields 0 where the shift is taken from the ink
\* bounds (src/textcurve.go) and the negated run advance once more where it
\* is taken from the advance (part_001).
C13_RealignButRight ==
    Returned =>
        /\ realigned.panic = ""
        /\ realigned.dy = Fin(0)
        /\ opt.Align.HAlign # HAlignRight => realigned.dx = Fin(0)
        /\ opt.Align.HAlign = HAlignRight =>
              realigned.dx = IF api = "parsed"
                             THEN Fin(-scaledAdvance(layoutAdvance, scale))
                             ELSE Fin(0)

\* Right/top on the advance-anchored path: the vertical shift is used up,
\* the horizontal one is not.
C13_Witness ==
    /\ Returned /\ api = "parsed"
    /\ opt.Align = [HAlign |-> HAlignRight, VAlign |-> VAlignTop]
    /\ dy.v # 0 /\ realigned.dy = Fin(0)
    /\ realigned.dx = dx /\ dx.v < 0

\* The call has passed its configuration checks and fixed its scale.
Scaled ==
    /\ InCall
    /\ pc \in {"shape", "loop", "hbloop", "align", "panic"} \/ (pc = "done" /\ ret.err = "nil")

DirFits ==
    /\ layout.len >= tableDirOffset
    /\ layout.len >= tableDirOffset + layout.numTables * recordSize

\* The records tagged OS/2 among the numTables records of the directory.
OS2Records ==
    {i \in 1..Len(layout.recs) : i <= layout.numTables /\ layout.recs[i].tag = os2Tag}

\* The record's table lies in the buffer and reaches sTypoAscender.
TableFits(r) ==
    /\ r.off.hi = 0 /\ r.len.hi = 0
    /\ r.off.lo + r.len.lo <= layout.len
    /\ r.len.lo >= typoAscOffset + 2

ShouldFind ==
    /\ DirFits
    /\ OS2Records # {}
    /\ TableFits(layout.recs[SetMin(OS2Records)])
    /\ Int16(layout.val) > 0

\* C15: parseOS2TypoAscender never reads outside the buffer and never
\* crashes; a short buffer, a directory exceeding the buffer, no OS/2 record,
\* or an OS/2 record whose table exceeds the buffer or is shorter than 70
\* bytes give not-found; it reports found only for a strictly positive
\* signed 16-bit value at table offset + 68, and returns that value.
C15_ParseInBounds ==
    os2ret.called =>
        /\ ~os2ret.crash
        /\ os2ret.reads \subseteq 0..(Len(data) - 1)
        /\ os2ret.ok <=> ShouldFind
        /\ os2ret.ok => os2ret.asc = Int16(layout.val)

\* The cache entry a sequential run leaves for handle h: the ascender of
\* its bytes when found and positive, else none (0).
SequentialEntry(h) ==
    IF fontFile[h].ok /\ fontFile[h].asc > 0 THEN fontFile[h].asc ELSE 0

\* C16: under every interleaving, each read of a handle's cached ascender
\* returns what a sequential run leaves for that handle; the entry is only
\* ever absent or that one value; and two calls with the same handle, text
\* and options return identical outline sets.
C16_CacheConsistent ==
    /\ \A h \in Handles :
          /\ fontAscenders[h] \in {0, SequentialEntry(h)}
          /\ ppc[h] \in {"stored", "returned"} => fontAscenders[h] = SequentialEntry(h)
    /\ \A c \in Callers :
          cpc[c] \in {"looked", "done"} => seen[c] = SequentialEntry(chandle[c])
    /\ \A c1, c2 \in Callers :
          (cpc[c1] = "done" /\ cpc[c2] = "done" /\ chandle[c1] = chandle[c2]) =>
              cret[c1] = cret[c2]

\* Two calls share a handle with a cached ascender while the other font's
\* ParseTTF is between its parse and its store.
C16_Witness ==
    /\ cpc[1] = "done" /\ cpc[2] = "looked" /\ chandle[1] = chandle[2]
    /\ seen[1] = 800 /\ seen[2] = 800
    /\ Len(cret[1].outlines) = 1
    /\ \E h \in Handles : h # chandle[1] /\ ppc[h] = "parsed" /\ fontFile[h].ok

\* The polyline of contour c before the final length test.
Polyline(c) ==
    closeContour(walked(c, penX, scale, opt.CurveSegs),
                 chooseStart(c, penX, scale).start, opt.CurveSegs)

\* The polyline had the walk taken the points in the order pts[0], pts[1],
\* ..., pts[n-1] from the same anchor.
PolylineInOrder(c) ==
    LET st == chooseStart(c, penX, scale).start
    IN closeContour(walk(c, penX, scale, opt.CurveSegs, 0, 0,
                         [poly |-> <<st>>, prevOn |-> st, haveCtrl |-> FALSE,
                          ctrl |-> XY(0, 0), quads |-> 0, visited |-> <<>>]),
                    st, opt.CurveSegs)

BothOff(c) == Len(c) > 0 /\ ~onCurve(c[1]) /\ ~onCurve(c[Len(c)])

\* C17: a contour whose first and last points are both off-curve starts at
\* the midpoint of the last and first points and is then decoded in the
\* order pts[0], ..., pts[n-1]: the first quadratic leaves the anchor with
\* pts[0] as control and the last one, with control pts[n-1], ends at the
\* anchor.
C17_BothOffInOrder ==
    pc = "decoded" =>
        \A c \in ContourSlices(gb) :
            BothOff(c) =>
                /\ Polyline(c)[1] = Mid(toVec(c[Len(c)], penX, scale), toVec(c[1], penX, scale))
                /\ Polyline(c) = PolylineInOrder(c)

\* The walk's locals before its first step.
WalkStart(c) ==
    LET st == chooseStart(c, penX, scale).start
    IN [poly |-> <<st>>, prevOn |-> st, haveCtrl |-> FALSE, ctrl |-> XY(0, 0),
        quads |-> 0, visited |-> <<>>]

\* The walk's locals after its first m steps.
WalkPrefix(c, m) ==
    walk(c, penX, scale, opt.CurveSegs,
         (chooseStart(c, penX, scale).startIdx + 1) % Len(c), Len(c) - m, WalkStart(c))

\* Step m + 1 meets an off-curve point while a control is pending.
ImpliedAt(c, m) ==
    /\ WalkPrefix(c, m).haveCtrl
    /\ ~onCurve(c[WalkPrefix(c, m + 1).visited[m + 1] + 1])

\* C18: an off-curve point met while a control is pending appends the
\* quadratic from the previous on-curve point through the pending control to
\* the midpoint of the two controls, makes the midpoint the previous on-curve
\* point and the new point the pending control, and moves the index on by
\* one; the n steps of the walk read each of the n points exactly once.
C18_ImpliedMidpointStep ==
    pc = "decoded" =>
        \A c \in ContourSlices(gb) :
            Len(c) > 0 =>
                LET n == Len(c)
                    v == WalkPrefix(c, n).visited
                IN /\ Len(v) = n
                   /\ {v[j] : j \in 1..n} = 0..(n - 1)
                   /\ \A j \in 1..(n - 1) : v[j + 1] = (v[j] + 1) % n
                   /\ \A m \in 0..(n - 1) :
                         ImpliedAt(c, m) =>
                             LET b == WalkPrefix(c, m)
                                 a == WalkPrefix(c, m + 1)
                                 q == toVec(c[v[m + 1] + 1], penX, scale)
                                 implied == Mid(b.ctrl, q)
                             IN /\ a.poly = b.poly \o flattenQuad(b.prevOn, b.ctrl, implied,
                                                                  opt.CurveSegs)
                                /\ a.prevOn = implied
                                /\ a.ctrl = q /\ a.haveCtrl

\* An on-curve point followed by two off-curve points, two segments per
\* quadratic: the second off-curve point finds a control pending.
C18_Witness ==
    /\ pc = "decoded" /\ opt.CurveSegs = 2 /\ Len(outlines) = 1
    /\ \E c \in ContourSlices(gb) :
          /\ Len(c) = 3 /\ onCurve(c[1]) /\ ~onCurve(c[2]) /\ ~onCurve(c[3])
          /\ c[2] # c[3]
          /\ ImpliedAt(c, 1)
          /\ WalkPrefix(c, 3).visited = <<1, 2, 0>>

\* The distinct points of a polyline.
Vertices(poly) == {poly[j] : j \in 1..Len(poly)}

\* C19: a contour whose closed polyline has fewer than 3 distinct points is
\* dropped: every contour accumulated from glyphContoursToPolylines, and
\* every contour TextOutlines returns, has at least 3 distinct points.
C19_DegenerateDropped ==
    /\ \A i \in 1..Len(outlines) : Cardinality(Vertices(outlines[i])) >= 3
    /\ \A i \in 1..Len(ret.outlines) : Cardinality(Vertices(ret.outlines[i])) >= 3

\* ends[j], with ends[-1] read as 0 (j counts the contours from 1).
Boundary(buf, j) == IF j = 0 THEN 0 ELSE buf.Ends[j]

\* The 0-based point indices of contour j: ends[j-1] .. ends[j] - 1.
IndicesOf(buf, j) == Boundary(buf, j - 1)..(Boundary(buf, j) - 1)

\* Contour j as the points at those indices, in order.
ContourAt(buf, j) ==
    [i \in 1..(Boundary(buf, j) - Boundary(buf, j - 1)) |->
        buf.Points[Boundary(buf, j - 1) + i]]

\* The polylines of contours j.. of a glyph that survive, in contour order.
RECURSIVE KeptFrom(_, _, _)
KeptFrom(buf, pen, j) ==
    IF j > Len(buf.Ends) THEN <<>>
    ELSE LET poly == flattenTrueTypeContour(ContourAt(buf, j), pen, scale, opt.CurveSegs)
         IN (IF Len(poly) > 0 THEN <<poly>> ELSE <<>>) \o KeptFrom(buf, pen, j + 1)

\* The surviving polylines of the first n placed glyphs, in glyph order.
RECURSIVE KeptOfPlaced(_)
KeptOfPlaced(n) ==
    IF n = 0 THEN <<>>
    ELSE KeptOfPlaced(n - 1)
         \o (IF placed[n].loaded
             THEN KeptFrom(Load(placed[n].idx).gb, placed[n].penX, 1)
             ELSE <<>>)

\* C20: contour j of a glyph is exactly points[ends[j-1] .. ends[j]) with
\* ends[-1] = 0: the index ranges of the contours are disjoint, cover every
\* index below the last end and stay below the length of the point list,
\* and the accumulated output is the surviving polylines of those contours
\* in glyph order and, within a glyph, in contour order.
C20_HalfOpenPartition ==
    /\ \A j \in 1..Len(gb.Ends) :
          /\ \A i \in IndicesOf(gb, j) : i < Len(gb.Points)
          /\ \A h \in 1..Len(gb.Ends) : h # j => IndicesOf(gb, h) \cap IndicesOf(gb, j) = {}
    /\ Len(gb.Ends) > 0 =>
          UNION {IndicesOf(gb, j) : j \in 1..Len(gb.Ends)} = 0..(gb.Ends[Len(gb.Ends)] - 1)
    /\ pc = "decoded" => outlines = KeptFrom(gb, penX, 1)
    /\ InCall /\ pc \in {"loop", "hbloop", "align"} => outlines = KeptOfPlaced(Len(placed))

\* "Aj" laid out: the triangle of "A", then of the four contours of "j" the
\* first and the third, the empty second and the two-point fourth leaving
\* nothing.
C20_Witness ==
    /\ InCall /\ pc = "align" /\ s = <<"A", "j">>
    /\ gb.Ends = <<4, 4, 7, 9>>
    /\ Len(outlines) = 3
    /\ outlines[2] = flattenTrueTypeContour(ContourAt(gb, 1), placed[2].penX, scale,
                                            opt.CurveSegs)
    /\ outlines[3] = flattenTrueTypeContour(ContourAt(gb, 3), placed[2].penX, scale,
                                            opt.CurveSegs)

\* The walk's locals when the loop over a contour ends.
Walked(c) == WalkPrefix(c, Len(c))

\* The steps of the walk (1..n) that read an off-curve point.
OffSteps(c) == {m \in 1..Len(c) : ~onCurve(c[Walked(c).visited[m] + 1])}

\* The steps that read an on-curve point with no control pending.
LineSteps(c) ==
    {m \in 1..Len(c) : /\ onCurve(c[Walked(c).visited[m] + 1])
                       /\ ~WalkPrefix(c, m - 1).haveCtrl}

\* The quadratics flattened for a contour: those of the walk and the one
\* that closes it when a control is left pending.
QuadsEmitted(c) == Walked(c).quads + (IF Walked(c).haveCtrl THEN 1 ELSE 0)

\* C21: after the n steps of the walk a control is pending exactly when the
\* first and the last point of the contour are both off-curve; every
\* off-curve point becomes the pending control at its step and the next
\* step, or the closure after the last step, flattens one quadratic with it,
\* so the quadratics number the off-curve points; and the closed polyline,
\* before the length test, has 1 + CurveSegs * (off-curve points) + (on-curve
\* points read with no control pending) points.
C21_ControlsAndLength ==
    pc = "decoded" =>
        \A c \in ContourSlices(gb) :
            Len(c) > 0 =>
                LET n == Len(c)
                    v == Walked(c).visited
                IN /\ Walked(c).haveCtrl <=> BothOff(c)
                   /\ \A m \in OffSteps(c) :
                         LET a == WalkPrefix(c, m)
                         IN /\ a.haveCtrl
                            /\ a.ctrl = toVec(c[v[m] + 1], penX, scale)
                            /\ m < n => WalkPrefix(c, m + 1).quads = a.quads + 1
                   /\ \A m \in 1..n :
                         WalkPrefix(c, m).quads - WalkPrefix(c, m - 1).quads
                             = (IF WalkPrefix(c, m - 1).haveCtrl THEN 1 ELSE 0)
                   /\ QuadsEmitted(c) = Cardinality(OffSteps(c))
                   /\ Len(Polyline(c)) = 1 + opt.CurveSegs * Cardinality(OffSteps(c))
                                           + Cardinality(LineSteps(c))

\* An off-curve, an on-curve and an off-curve point, two segments per
\* quadratic: a line to the on-curve point, a quadratic to the implied
\* midpoint and, the control of the first point left pending, a quadratic
\* that closes the contour: 1 + 2 * 2 + 1 points.
C21_Witness ==
    /\ pc = "decoded" /\ opt.CurveSegs = 2 /\ gb.Ends = <<3>>
    /\ BothOff(gb.Points) /\ onCurve(gb.Points[2])
    /\ Walked(gb.Points).haveCtrl
    /\ QuadsEmitted(gb.Points) = 2
    /\ Len(outlines) = 1 /\ Len(outlines[1]) = 6

ExtFinite(a) == a.k = "fin"

\* With a finite Size the bounds handed to computeAlign are finite and
\* ordered, on both entry points.
FiniteSizeFiniteBounds ==
    InCall /\ pc = "align" =>
        /\ ExtFinite(bnd.minX) /\ ExtFinite(bnd.maxX)
        /\ ExtFinite(bnd.minY) /\ ExtFinite(bnd.maxY)
        /\ bnd.minX.v <= bnd.maxX.v /\ bnd.minY.v <= bnd.maxY.v

\* C22: computeAlign is only reached with finite bounds, minX <= maxX and
\* minY <= maxY, none left at its initial +Inf or -Inf, and no infinite or
\* NaN shift is added to an output point.
C22_FiniteBounds ==
    fcall.pc = "returned" /\ fcall.ret.aligned =>
        LET b == fcall.ret.bnd
        IN /\ ExtFinite(b.minX) /\ ExtFinite(b.maxX)
           /\ ExtFinite(b.minY) /\ ExtFinite(b.maxY)
           /\ b.minX.v <= b.maxX.v /\ b.minY.v <= b.maxY.v
           /\ ExtFinite(fcall.ret.dx) /\ ExtFinite(fcall.ret.dy)

====
